---- MODULE Spec2Model ----
(***************************************************************************)
(* Model of batch_captions.py: the links-file reader, the URL parser, the  *)
(* playlist expander, the transcript fallback chain, the chunked           *)
(* translator and the batch orchestrator (main).                           *)
(*                                                                         *)
(* Text is modelled as a sequence of one-character strings, so that the    *)
(* regular-expression substitution, the splits, the strips and the URL     *)
(* parsing are computed character by character as the code computes them.  *)
(***************************************************************************)
EXTENDS Integers, Sequences, FiniteSets, TLC

VARIABLES
    linksExists,        \* whether links.txt exists
    content,            \* the characters of links.txt
    pc,                 \* position of main
    batches,            \* main: batches (result of read_batches_from_links_file)
    prompt,             \* main: prompt (result of read_prompt)
    i,                  \* main: 1-based index of the current batch
    linkIdx,            \* main: position of "for link in batch"
    expanded_videos,    \* main: expanded_videos of the current batch
    j,                  \* main: start offset of the current sub-batch
    k,                  \* main: position inside the current sub-batch
    files,              \* names of the files in the captions directory
    log,                \* history: one record per expansion, process_video call and loop end
    last,               \* history: detail of the latest process_video call
    world,              \* history: the provider behaviour that call met
    worlds,             \* which provider behaviours the run can meet: "main" or "all"
    text,               \* translate_with_chunking: text
    chunk_size,         \* translate_with_chunking: chunk_size
    ti,                 \* translate_with_chunking: loop variable i
    translated_chunks,  \* translate_with_chunking: translated_chunks
    chunkLog,           \* history: per chunk, its start and whether translate returned
    translation,        \* translate_with_chunking: the returned text
    tpc                 \* position of translate_with_chunking

mainVars == <<pc, batches, prompt, i, linkIdx, expanded_videos, j, k, files, log, last, world>>
trVars == <<text, chunk_size, ti, translated_chunks, chunkLog, translation, tpc>>
vars == <<linksExists, content, worlds, mainVars, trVars>>

-----------------------------------------------------------------------------
(* Bounds of the model *)

MaxTokens == 5          \* links.txt of the reader specification: at most this many tokens
MaxLines == 3           \* links.txt of the main specification: at most this many lines
MaxExtra == 1           \* playlist lengths 1..MaxExtra and BATCH_SIZE..BATCH_SIZE+MaxExtra
MaxTextLen == 5         \* translate_with_chunking: longest text
MaxChunkSize == 3       \* translate_with_chunking: largest chunk_size argument

(* Program constants *)

BATCH_SIZE == 20
DELAY_BETWEEN_BATCHES == 5
DELAY_BETWEEN_VIDEOS == 1
MinDashes == 5
DefaultChunkSize == 4500
IdLen == 11

-----------------------------------------------------------------------------
(* Strings *)

NL == "\n"
Whitespace == {" ", NL}

NormSep == <<"-", "-", "-", "-", "-", "-", "-", "-", "-", "-", "-", "-", "-">>

Min(a, b) == IF a < b THEN a ELSE b

\* s[a:b] of Python, 0-based, end exclusive, clipped to the string
Slice(s, a, b) == SubSeq(s, a + 1, Min(b, Len(s)))

\* sub in s (Python's substring test)
Contains(s, sub) ==
    \E p \in 1..(Len(s) - Len(sub) + 1) : SubSeq(s, p, p + Len(sub) - 1) = sub

\* s.find(sub) + 1, or 0 when sub does not occur
Find(s, sub) ==
    LET hits == {p \in 1..(Len(s) - Len(sub) + 1) : SubSeq(s, p, p + Len(sub) - 1) = sub}
    IN  IF hits = {} THEN 0 ELSE CHOOSE p \in hits : \A q \in hits : p <= q

\* s.strip()
Strip(s) ==
    LET keep == {p \in 1..Len(s) : s[p] \notin Whitespace}
    IN  IF keep = {} THEN <<>>
        ELSE SubSeq(s, CHOOSE p \in keep : \A q \in keep : p <= q,
                       CHOOSE p \in keep : \A q \in keep : p >= q)

\* s.lstrip(c)
LStrip(s, c) ==
    LET keep == {p \in 1..Len(s) : s[p] # c}
    IN  IF keep = {} THEN <<>>
        ELSE SubSeq(s, CHOOSE p \in keep : \A q \in keep : p <= q, Len(s))

RECURSIVE Split(_, _)
\* s.split(sep): the pieces between the non-overlapping occurrences of sep, left to right
Split(s, sep) ==
    LET p == Find(s, sep)
    IN  IF p = 0 THEN <<s>>
        ELSE <<SubSeq(s, 1, p - 1)>> \o Split(SubSeq(s, p + Len(sep), Len(s)), sep)

\* s.splitlines(): the lines of s; a final line break opens no further line
SplitLines(s) ==
    IF s = <<>> THEN <<>>
    ELSE LET parts == Split(s, <<NL>>)
         IN  IF s[Len(s)] = NL THEN SubSeq(parts, 1, Len(parts) - 1) ELSE parts

RECURSIVE Join(_, _)
\* sep.join(parts)
Join(parts, sep) ==
    IF parts = <<>> THEN <<>>
    ELSE IF Len(parts) = 1 THEN parts[1]
    ELSE parts[1] \o sep \o Join(Tail(parts), sep)

RECURSIVE Concat(_)
Concat(parts) == IF parts = <<>> THEN <<>> ELSE parts[1] \o Concat(Tail(parts))

-----------------------------------------------------------------------------
(* read_batches_from_links_file *)

\* the number of consecutive dashes of s that start at position p
DashRun(s, p) ==
    LET stops == {q \in p..Len(s) : s[q] # "-"}
    IN  IF stops = {} THEN Len(s) + 1 - p
        ELSE (CHOOSE q \in stops : \A r \in stops : q <= r) - p

RECURSIVE SubDashes(_, _)
\* re.sub(r'-{5,}', '-------------', s) from position p on: the leftmost run of five
\* or more dashes is replaced whole (the match is greedy), then the rest
SubDashes(s, p) ==
    LET starts == {q \in p..Len(s) : DashRun(s, q) >= MinDashes}
    IN  IF starts = {} THEN SubSeq(s, p, Len(s))
        ELSE LET q == CHOOSE x \in starts : \A y \in starts : x <= y
             IN  SubSeq(s, p, q - 1) \o NormSep \o SubDashes(s, q + DashRun(s, q))

NormalizeSeparators(s) == SubDashes(s, 1)

\* the list comprehensions of lines 35 and 36
BatchesOfContent(c) ==
    LET chunks == Split(NormalizeSeparators(c), NormSep)
        lists == [n \in 1..Len(chunks) |-> SplitLines(Strip(chunks[n]))]
        kept == SelectSeq(lists, LAMBDA b : b # <<>>)
        Links(b) == SelectSeq([n \in 1..Len(b) |-> Strip(b[n])], LAMBDA l : l # <<>>)
    IN  [n \in 1..Len(kept) |-> Links(kept[n])]

\* read_batches_from_links_file: [] when the file does not exist
ReadBatchesFromLinksFile(exists, c) == IF exists THEN BatchesOfContent(c) ELSE <<>>

-----------------------------------------------------------------------------
(* urllib.parse, as far as process_video and the playlist expander use it *)

Letters ==
    {"a", "b", "c", "d", "e", "f", "g", "h", "i", "j", "k", "l", "m", "n", "o", "p", "q",
     "r", "s", "t", "u", "v", "w", "x", "y", "z", "A", "B", "C", "D", "E", "F", "G", "H",
     "I", "J", "K", "L", "M", "N", "O", "P", "Q", "R", "S", "T", "U", "V", "W", "X", "Y",
     "Z"}
Digits == {"0", "1", "2", "3", "4", "5", "6", "7", "8", "9"}
SchemeChars == Letters \cup Digits \cup {"+", "-", "."}
IdChars == Letters \cup Digits \cup {"_", "-"}

\* the position of the first character of s that is in cs, or Len(s) + 1
FirstOf(s, cs) ==
    LET hits == {p \in 1..Len(s) : s[p] \in cs}
    IN  IF hits = {} THEN Len(s) + 1 ELSE CHOOSE p \in hits : \A q \in hits : p <= q

\* s without the character at position p: what stands before it and what after it
CutAt(s, p) == [head |-> SubSeq(s, 1, p - 1), tail |-> SubSeq(s, p + 1, Len(s))]

\* s cut at its first character out of cs; without one, head is all of s
Partition(s, cs) == CutAt(s, FirstOf(s, cs))

\* urlsplit: the position of the colon that ends a scheme, or 0 when the text before
\* the first colon is no scheme
SchemeEnd(url, colon) ==
    IF /\ colon > 1
       /\ url[1] \in Letters
       /\ \A p \in 1..(colon - 1) : url[p] \in SchemeChars
    THEN colon ELSE 0

\* urlsplit: the scheme (head) and what follows its colon (tail)
SplitScheme(url) == CutAt(url, SchemeEnd(url, Find(url, <<":">>)))

\* urlsplit: after "//" the netloc (head) runs to the first "/", "?" or "#"
SplitNetloc(rest) ==
    IF Len(rest) >= 2 /\ SubSeq(rest, 1, 2) = <<"/", "/">>
    THEN LET nEnd == FirstOf(SubSeq(rest, 3, Len(rest)), {"/", "?", "#"})
         IN  [head |-> SubSeq(rest, 3, nEnd + 1), tail |-> SubSeq(rest, nEnd + 2, Len(rest))]
    ELSE [head |-> <<>>, tail |-> rest]

\* urlparse(url): scheme, netloc, path, query and fragment
UrlParse(url) ==
    LET Parts(sch, net, fr, q) ==
            [scheme |-> sch.head, netloc |-> net.head, path |-> q.head, query |-> q.tail,
             fragment |-> fr.tail]
        FromFragment(sch, net, fr) == Parts(sch, net, fr, Partition(fr.head, {"?"}))
        FromNetloc(sch, net) == FromFragment(sch, net, Partition(net.tail, {"#"}))
        FromScheme(sch) == FromNetloc(sch, SplitNetloc(sch.tail))
    IN  FromScheme(SplitScheme(url))

\* parse_qs(query) restricted to one name: the values of the fields name=value, in
\* order; fields without "=" and fields with a blank value are dropped
QueryValues(query, name) ==
    LET fields == Split(query, <<"&">>)
        eq(f) == FirstOf(f, {"="})
        isField(f) == /\ eq(f) <= Len(f)
                      /\ SubSeq(f, 1, eq(f) - 1) = name
                      /\ eq(f) < Len(f)
        hits == SelectSeq(fields, isField)
    IN  [n \in 1..Len(hits) |-> SubSeq(hits[n], eq(hits[n]) + 1, Len(hits[n]))]

-----------------------------------------------------------------------------
(* process_video: the video ID of a reference *)

ShortHost == <<"y", "o", "u", "t", "u", ".", "b", "e">>
PlaylistMarker == <<"p", "l", "a", "y", "l", "i", "s", "t", "?", "l", "i", "s", "t", "=">>
WatchPrefix ==
    <<"h", "t", "t", "p", "s", ":", "/", "/", "w", "w", "w", ".", "y", "o", "u", "t", "u",
      "b", "e", ".", "c", "o", "m", "/", "w", "a", "t", "c", "h", "?", "v", "=">>
TxtSuffix == <<".", "t", "x", "t">>

\* lines 151-153: parse_qs(urlparse(url).query), 'v' in qs, qs['v'][0]
FirstValue(vs) ==
    IF vs # <<>> THEN [found |-> TRUE, val |-> vs[1]] ELSE [found |-> FALSE, val |-> <<>>]

\* lines 148-153: video_id, with found = FALSE for None
ExtractVideoId(video_url) ==
    IF Contains(video_url, ShortHost)
    THEN [found |-> TRUE, val |-> LStrip(UrlParse(video_url).path, "/")]
    ELSE FirstValue(QueryValues(UrlParse(video_url).query, <<"v">>))

\* re.match(r'^[a-zA-Z0-9_-]{11}$', s); "$" also matches before one final line break
MatchesIdPattern(s) ==
    /\ Len(s) \in {IdLen, IdLen + 1}
    /\ \A p \in 1..IdLen : s[p] \in IdChars
    /\ Len(s) = IdLen + 1 => s[IdLen + 1] = NL

\* line 155, negated: the video ID is accepted
IsValidId(id) == id.found /\ id.val # <<>> /\ MatchesIdPattern(id.val)

\* lines 148-155: the reference is accepted
IsValidReference(video_url) == IsValidId(ExtractVideoId(video_url))

\* sanitize_filename
BadFilenameChars == {"\\", "/", "*", "?", ":", "\"", "<", ">", "|"}
SanitizeFilename(name) == SelectSeq(name, LAMBDA c : c \notin BadFilenameChars)

\* fetch_video_title: the title, or the video ID when the lookup raises
FetchVideoTitle(video_id, w) == IF w.titleOk THEN w.title ELSE video_id

\* lines 163-164
FilenameOf(title, video_id) == SanitizeFilename(title) \o <<"_">> \o video_id \o TxtSuffix

-----------------------------------------------------------------------------
(* translate_with_chunking *)

\* translator.translate(chunk).text: a translation that changes every letter and
\* does not keep the length
TranslateChar(c) ==
    CASE c = "a" -> <<"A">>
      [] c = "b" -> <<"B", "B">>
      [] OTHER -> <<c>>

RECURSIVE Translate(_)
Translate(chunk) ==
    IF chunk = <<>> THEN <<>> ELSE TranslateChar(chunk[1]) \o Translate(Tail(chunk))

\* line 73: chunk = text[i:i + chunk_size]
ChunkAt(t, at, size) == Slice(t, at, at + size)

\* a loop that appends nothing for a chunk whose translation raises
ChunkResultDropsFailed(chunk, ok) == IF ok THEN Translate(chunk) ELSE <<>>

\* lines 74-79: what one iteration appends, ok = FALSE when translate raises
ChunkResult(chunk, ok) == IF ok THEN Translate(chunk) ELSE chunk

RECURSIVE TranslateFrom(_, _, _, _, _)
\* the loop of lines 72-79 from position at on; oks[n] tells whether the n-th call
\* of translate returns
TranslateFrom(t, at, size, oks, n) ==
    IF at >= Len(t) THEN <<>>
    ELSE <<ChunkResult(ChunkAt(t, at, size), oks[n])>>
         \o TranslateFrom(t, at + size, size, oks, n + 1)

\* translate_with_chunking(text, chunk_size=size)
TranslateWithChunking(t, size, oks) == Join(TranslateFrom(t, 0, size, oks, 1), <<NL>>)

-----------------------------------------------------------------------------
(* get_transcript_with_fallback *)

\* The caption tracks a video can have, in the order the transcript list iterates
\* them (manually created first, generated after); snippets are what fetch() returns.
TrackPool ==
    << [code |-> "mr",    generated |-> FALSE, snippets |-> << <<"m">> >>],
       [code |-> "en-GB", generated |-> FALSE, snippets |-> << <<"b">>, <<"a">> >>],
       [code |-> "hi",    generated |-> FALSE, snippets |-> << <<"h">> >>],
       [code |-> "mr",    generated |-> TRUE,  snippets |-> << <<"g">> >>],
       [code |-> "en",    generated |-> TRUE,  snippets |-> << <<"a">>, <<"b">> >>] >>

\* the transcript list of a video that has the tracks sel of the pool
TranscriptList(sel) ==
    LET idx == SelectSeq([n \in 1..Len(TrackPool) |-> n], LAMBDA n : n \in sel)
    IN  [n \in 1..Len(idx) |-> TrackPool[idx[n]]]

RECURSIVE FindTrack(_, _, _)
\* TranscriptList._find_transcript: the first language code, in the order asked, that
\* has a track of one of the kinds; among those the manually created one first.
\* found = FALSE stands for NoTranscriptFound.
FindTrack(tl, codes, kinds) ==
    IF codes = <<>> THEN [found |-> FALSE, track |-> TrackPool[1]]
    ELSE LET hits == SelectSeq(tl, LAMBDA t : t.code = codes[1] /\ t.generated \in kinds)
         IN  IF hits # <<>> THEN [found |-> TRUE, track |-> hits[1]]
             ELSE FindTrack(tl, Tail(codes), kinds)

FindManuallyCreatedTranscript(tl, codes) == FindTrack(tl, codes, {FALSE})
FindGeneratedTranscript(tl, codes) == FindTrack(tl, codes, {TRUE})
FindTranscript(tl, codes) == FindTrack(tl, codes, {FALSE, TRUE})

EnglishCodes == <<"en", "en-US", "en-GB">>

\* "\n".join([t['text'] for t in transcript.fetch()])
FetchText(track) == Join(track.snippets, <<NL>>)

NoResult ==
    [raised |-> "", codes |-> <<>>, source |-> "none", text |-> <<>>, translateCalls |-> 0]

\* a fallback that asks for the generated Marathi track first
SelectStrategyGeneratedFirst(manual, auto, english) ==
    IF auto.found THEN "generated"
    ELSE IF manual.found THEN "manual"
    ELSE IF english.found THEN "translated"
    ELSE "none"

\* lines 98-121: the strategy that wins, the first of the three whose lookup does not
\* raise NoTranscriptFound
SelectStrategy(manual, auto, english) ==
    IF manual.found THEN "manual"
    ELSE IF auto.found THEN "generated"
    ELSE IF english.found THEN "translated"
    ELSE "none"

\* get_transcript_with_fallback for a video whose provider behaves as w says:
\*   w.listing   outcome of list_transcripts: "ok", "TranscriptsDisabled",
\*               "NoTranscriptFound" or "error" (any other exception)
\*   w.tracks    the tracks of the pool the video has
\*   w.fetchOk   whether fetch() returns (FALSE: it raises another exception)
\*   w.chunkOk   whether translate returns for the chunk
\* raised = "" is a normal return of text.
GetTranscriptWithFallback(w) ==
    LET tl == TranscriptList(w.tracks)
        manual == FindManuallyCreatedTranscript(tl, <<"mr">>)
        auto == FindGeneratedTranscript(tl, <<"mr">>)
        english == FindTranscript(tl, EnglishCodes)
        Fetched(found, src) ==
            IF w.fetchOk
            THEN [NoResult EXCEPT !.source = src, !.text = FetchText(found.track)]
            ELSE [NoResult EXCEPT !.raised = "error"]
        strategy == SelectStrategy(manual, auto, english)
    IN  IF w.listing # "ok" THEN [NoResult EXCEPT !.raised = w.listing]
        ELSE IF strategy = "manual" THEN Fetched(manual, "manual")
        ELSE IF strategy = "generated" THEN Fetched(auto, "generated")
        ELSE IF strategy = "translated"
             THEN IF w.fetchOk
                  THEN [NoResult EXCEPT
                          !.source = "translated",
                          !.translateCalls = 1,
                          !.text = TranslateWithChunking(FetchText(english.track),
                                                         DefaultChunkSize, <<w.chunkOk>>)]
                  ELSE [NoResult EXCEPT !.raised = "error"]
        ELSE [NoResult EXCEPT
                !.raised = "NoTranscriptFound",
                !.codes = [n \in 1..Len(tl) |-> tl[n].code]]

-----------------------------------------------------------------------------
(* process_caption_text, save_caption_file, process_video *)

ProcessCaptionText(t, p) == IF p = <<>> THEN t ELSE t \o <<NL, NL>> \o p

NoTranscriptErrors == {"NoTranscriptFound", "TranscriptsDisabled"}

\* lines 166-175: how the try statement ends for the result res of
\* get_transcript_with_fallback
OutcomeOf(res, w) ==
    IF res.raised \in NoTranscriptErrors THEN "no_transcript"
    ELSE IF res.raised # "" \/ ~w.writeOk THEN "error"
    ELSE "saved"

\* a process_video that saves whatever the fallback ended with
SavesFileAlways(res, w) == w.writeOk

\* line 170 and save_caption_file: whether the file gets written
SavesFile(res, w) == res.raised = "" /\ w.writeOk

\* a process_video that sleeps at the end of the try body instead of in finally
VideoDelaysInTryBody(outcome) == IF outcome = "saved" THEN <<DELAY_BETWEEN_VIDEOS>> ELSE <<>>

\* lines 155-160 and 176-178: the sleeps of one call; a rejected reference returns
\* before the try statement whose finally clause sleeps
VideoDelays(outcome) == IF outcome = "invalid" THEN <<>> ELSE <<DELAY_BETWEEN_VIDEOS>>

\* a process_video without the "except Exception" clause
ExceptionEscapesUnlessNamed(outcome) == outcome = "error"

\* lines 171-175: whether an exception leaves process_video; "except Exception"
\* catches whatever the two named classes do not
ExceptionEscapes(outcome) == FALSE

\* lines 162-178: process_video from the title lookup on, for the video ID id and
\* the result res of get_transcript_with_fallback
\*   outcome  "invalid" (line 157), "saved", "no_transcript" (line 172) or "error" (line 175)
\*   files    the captions directory afterwards
\*   delays   the durations time.sleep was called with
\*   escaped  whether the call ended with an exception instead of returning
ProcessVideoResult(id, res, p, w, fs) ==
    LET valid == IsValidId(id)
        filename == FilenameOf(FetchVideoTitle(id.val, w), id.val)
        outcome == IF valid THEN OutcomeOf(res, w) ELSE "invalid"
        saves == valid /\ SavesFile(res, w)
    IN  [outcome |-> outcome,
         video_id |-> IF valid THEN id.val ELSE <<>>,
         fetched |-> valid,
         res |-> res,
         filename |-> IF saves THEN filename ELSE <<>>,
         written |-> IF saves THEN ProcessCaptionText(res.text, p) ELSE <<>>,
         files |-> IF saves THEN fs \cup {filename} ELSE fs,
         delays |-> VideoDelays(outcome),
         escaped |-> ExceptionEscapes(outcome)]

\* lines 155-168: a rejected video ID returns before get_transcript_with_fallback
ProcessVideoId(id, p, w, fs) ==
    ProcessVideoResult(id, IF IsValidId(id) THEN GetTranscriptWithFallback(w) ELSE NoResult,
                       p, w, fs)

\* process_video(video_url, prompt) with the captions directory holding fs and the
\* providers behaving as w says
ProcessVideo(video_url, p, w, fs) == ProcessVideoId(ExtractVideoId(video_url), p, w, fs)

-----------------------------------------------------------------------------
(* fetch_video_ids_from_playlist *)

\* Playlist.video_urls: pytube lists each video as a watch URL
VideoUrls(ids) == [n \in 1..Len(ids) |-> WatchPrefix \o ids[n]]

\* line 53: parse_qs(urlparse(url).query) at 'v'
VideoIdsOf(url) == QueryValues(UrlParse(url).query, <<"v">>)

\* line 53: the list comprehension
IdsOfUrls(urls) ==
    LET withV == SelectSeq(urls, LAMBDA u : VideoIdsOf(u) # <<>>)
    IN  [n \in 1..Len(withV) |-> VideoIdsOf(withV[n])[1]]

\* fetch_video_ids_from_playlist for a playlist that holds the videos pl.ids;
\* pl.fails: the listing (or the title lookup of line 54) raises
FetchVideoIdsFromPlaylist(pl) ==
    IF pl.fails \/ pl.ids = <<>> THEN <<>> ELSE IdsOfUrls(VideoUrls(pl.ids))

\* line 199
IsPlaylistLink(link) == Contains(link, PlaylistMarker)

-----------------------------------------------------------------------------
(* The inputs of the model *)

IdA == <<"A", "A", "A", "A", "A", "A", "A", "A", "A", "A", "1">>
IdB == <<"B", "B", "B", "B", "B", "B", "B", "B", "B", "B", "2">>
IdC == <<"C", "C", "C", "C", "C", "C", "C", "C", "C", "C", "3">>
IdDashes == <<"a", "b", "-", "-", "-", "-", "-", "c", "d", "e", "f">>
ShortPrefix == <<"h", "t", "t", "p", "s", ":", "/", "/", "y", "o", "u", "t", "u", ".", "b", "e", "/">>
PlaylistLink == <<"h", "t", "t", "p", "s", ":", "/", "/", "w", "w", "w", ".", "y", "o", "u", "t", "u", "b", "e", ".", "c", "o", "m", "/", "p", "l", "a", "y", "l", "i", "s", "t", "?", "l", "i", "s", "t", "=", "P", "L">>
VideoTitle == <<"A", ":", "B", "/", "C", "?">>

\* the lines of links.txt in the main specification
MainLines ==
    { ShortPrefix \o IdA,          \* a short link of video A
      WatchPrefix \o IdB,          \* a watch link of video B
      ShortPrefix \o IdDashes,     \* a short link of a video whose ID holds five dashes
      ShortPrefix \o <<"b", "a", "d">>,   \* not a video reference
      PlaylistLink,
      <<"-", "-", "-", "-", "-">> }

RECURSIVE SeqsUpTo(_, _)
\* the sequences of at most n elements of S
SeqsUpTo(S, n) ==
    IF n = 0 THEN {<<>>}
    ELSE LET shorter == SeqsUpTo(S, n - 1)
         IN  shorter \cup {Append(q, x) : q \in shorter, x \in S}

MainFiles == {Join(ls, <<NL>>) : ls \in SeqsUpTo(MainLines, MaxLines)}

\* the pieces links.txt is built of in the reader specification
ReadTokens == {<<"a">>, <<" ">>, <<NL>>, <<"-">>, <<"-", "-", "-", "-">>,
               <<"-", "-", "-", "-", "-">>}
ReadFiles == {Concat(ts) : ts \in SeqsUpTo(ReadTokens, MaxTokens)}

\* the videos of a playlist of n entries
PlaylistIds(n) == [m \in 1..n |-> <<IdA, IdB, IdC>>[((m - 1) % 3) + 1]]
PlaylistLens == (0..MaxExtra) \cup (BATCH_SIZE..(BATCH_SIZE + MaxExtra))
Playlists ==
    {[fails |-> FALSE, ids |-> PlaylistIds(n)] : n \in PlaylistLens}
        \cup {[fails |-> TRUE, ids |-> PlaylistIds(1)]}

Listings == {"ok", "TranscriptsDisabled", "NoTranscriptFound", "error"}

\* The strategy get_transcript_with_fallback ends in for the tracks ts
StrategyOf(ts) ==
    LET tl == TranscriptList(ts)
    IN  SelectStrategy(FindManuallyCreatedTranscript(tl, <<"mr">>),
                       FindGeneratedTranscript(tl, <<"mr">>),
                       FindTranscript(tl, EnglishCodes))

\* How the providers behave for one video: every combination of outcomes of the
\* title lookup, the listing, fetch, translate and the write, where a call that is
\* never reached has no outcome to choose (it is kept at "returns")
World(titleOk, listing, tracks, fetchOk, chunkOk, writeOk) ==
    [titleOk |-> titleOk, title |-> VideoTitle, listing |-> listing, tracks |-> tracks,
     fetchOk |-> fetchOk, chunkOk |-> chunkOk, writeOk |-> writeOk]
Worlds ==
    {World(t, l, {}, TRUE, TRUE, TRUE) : t \in BOOLEAN, l \in Listings \ {"ok"}}
        \cup {World(t, "ok", ts, TRUE, TRUE, TRUE) :
                t \in BOOLEAN, ts \in SUBSET (1..Len(TrackPool))}
        \cup {World(t, "ok", ts, fw[1], TRUE, fw[2]) :
                t \in BOOLEAN, fw \in {<<TRUE, TRUE>>, <<FALSE, TRUE>>, <<TRUE, FALSE>>},
                ts \in {x \in SUBSET (1..Len(TrackPool)) : StrategyOf(x) # "none"}}
        \cup {World(t, "ok", ts, TRUE, c, wr) :
                t \in BOOLEAN, c \in BOOLEAN, wr \in BOOLEAN,
                ts \in {x \in SUBSET (1..Len(TrackPool)) : StrategyOf(x) = "translated"}}

\* the main specification meets a video with a manual Marathi track, a video with
\* no track at all and a listing that fails
MainWorlds ==
    {w \in Worlds : /\ w.tracks \in {{}, {1}}
                    /\ w.listing \in {"ok", "error"}
                    /\ w.titleOk /\ w.fetchOk /\ w.chunkOk /\ w.writeOk}

\* links.txt of the specification that meets every provider behaviour
VideoFiles ==
    {Join(ls, <<NL>>) : ls \in {<<ShortPrefix \o IdA, WatchPrefix \o IdB>>,
                                <<WatchPrefix \o IdB>>,
                                <<ShortPrefix \o <<"b", "a", "d">>, ShortPrefix \o IdA>>,
                                <<PlaylistLink, <<"-", "-", "-", "-", "-">>,
                                  ShortPrefix \o IdA>>}}

Prompts == {<<>>, <<"P">>}

\* the prompts of the run: the main specification has one prompt.txt
PromptsFor(tag) == IF tag = "all" THEN Prompts ELSE {<<"P">>}

-----------------------------------------------------------------------------
(* main *)

\* a world for the calls that never reach a provider
NoWorld == World(TRUE, "ok", {}, TRUE, TRUE, TRUE)

WorldsFor(video_url) == IF ~IsValidReference(video_url) THEN {NoWorld}
    ELSE IF worlds = "all" THEN Worlds ELSE MainWorlds

NoCall == [called |-> FALSE, url |-> <<>>, before |-> {},
           r |-> ProcessVideo(<<>>, <<>>, NoWorld, {})]

Event(ev, url, pl, outcome, delays, ids) ==
    [ev |-> ev, batch |-> i, sub |-> (j \div BATCH_SIZE) + 1, url |-> url, pl |-> pl,
     outcome |-> outcome, delays |-> delays, ids |-> ids]

\* a slice that runs one entry into the next sub-batch
SubBatchOverlapping(videos, start) == Slice(videos, start, start + BATCH_SIZE + 1)

\* line 207: sub_batch = expanded_videos[j:j + BATCH_SIZE]
SubBatch(videos, start) == Slice(videos, start, start + BATCH_SIZE)

\* a test that also sleeps after a sub-batch that ends exactly at the end of the list
SubBatchDelaysInclusive(start, total) ==
    IF start + BATCH_SIZE <= total THEN <<DELAY_BETWEEN_BATCHES>> ELSE <<>>

\* lines 214-216: the sleeps after the sub-batch that starts at start
SubBatchDelays(start, total) ==
    IF start + BATCH_SIZE < total THEN <<DELAY_BETWEEN_BATCHES>> ELSE <<>>

\* lines 218-220: the sleeps after batch number b of nb
BatchDelays(b, nb) == IF b < nb THEN <<DELAY_BETWEEN_BATCHES>> ELSE <<>>

\* the entries of expanded_videos for the references refs; pl marks the entries
\* that come out of a playlist
EntriesOf(refs, pl) == [n \in 1..Len(refs) |-> [url |-> refs[n], pl |-> pl]]

\* lines 198-202: what one link adds to expanded_videos
ExpandedEntries(link, playlist) ==
    IF IsPlaylistLink(link)
    THEN EntriesOf(FetchVideoIdsFromPlaylist(playlist), TRUE)
    ELSE EntriesOf(<<link>>, FALSE)

TranslatorIdle ==
    /\ text = <<>> /\ chunk_size = 1 /\ ti = 0
    /\ translated_chunks = <<>> /\ chunkLog = <<>> /\ translation = <<>> /\ tpc = "idle"

MainIdle ==
    /\ pc = "start" /\ batches = <<>> /\ prompt = <<>> /\ i = 0 /\ linkIdx = 0
    /\ expanded_videos = <<>> /\ j = 0 /\ k = 0 /\ files = {} /\ log = <<>>
    /\ last = NoCall
    /\ world = NoWorld

Init ==
    /\ linksExists \in BOOLEAN
    /\ content \in (IF linksExists THEN MainFiles ELSE {<<>>})
    /\ worlds = "main"
    /\ MainIdle
    /\ TranslatorIdle

\* lines 181-193: read the batches and the prompt
ReadInputs ==
    /\ pc = "start"
    /\ batches' = ReadBatchesFromLinksFile(linksExists, content)
    /\ IF batches' = <<>>
       THEN /\ pc' = "done"
            /\ UNCHANGED <<prompt, i, linkIdx>>
       ELSE /\ pc' = "expand"
            /\ prompt' \in PromptsFor(worlds)
            /\ i' = 1
            /\ linkIdx' = 1
    /\ UNCHANGED <<linksExists, content, worlds, expanded_videos, j, k, files, log, last, world,
                   trVars>>

\* lines 198-202: one iteration of "for link in batch"
ExpandLink ==
    /\ pc = "expand"
    /\ linkIdx <= Len(batches[i])
    /\ LET link == batches[i][linkIdx]
       IN  IF IsPlaylistLink(link)
           THEN \E playlist \in Playlists :
                  /\ expanded_videos' = expanded_videos \o ExpandedEntries(link, playlist)
                  /\ log' = Append(log, Event("expand", link, TRUE,
                                              IF playlist.fails THEN "failed" ELSE "ok",
                                              <<>>, playlist.ids))
           ELSE /\ expanded_videos' = expanded_videos \o ExpandedEntries(link, NoWorld)
                /\ UNCHANGED log
    /\ linkIdx' = linkIdx + 1
    /\ UNCHANGED <<linksExists, content, worlds, pc, batches, prompt, i, j, k, files, last, world,
                   trVars>>

\* lines 204-206: the batch is expanded; enter "for j in range(...)"
EnterSubBatches ==
    /\ pc = "expand"
    /\ linkIdx > Len(batches[i])
    /\ j' = 0
    /\ k' = 1
    /\ pc' = IF expanded_videos = <<>> THEN "batchend" ELSE "video"
    /\ UNCHANGED <<linksExists, content, worlds, batches, prompt, i, linkIdx, expanded_videos,
                   files, log, last, world, trVars>>

\* lines 211-212: process_video for the next entry of the sub-batch
ProcessNextVideo ==
    /\ pc = "video"
    /\ LET sub_batch == SubBatch(expanded_videos, j)
           entry == sub_batch[k]
       IN  \E w \in WorldsFor(entry.url) :
              /\ world' = w
              /\ \E r \in {ProcessVideo(entry.url, prompt, w, files)} :
                    /\ files' = r.files
                    /\ log' = Append(log, Event("video", entry.url, entry.pl, r.outcome,
                                                r.delays, <<>>))
                    /\ last' = [called |-> TRUE, url |-> entry.url,
                                before |-> files, r |-> r]
                    /\ IF r.escaped THEN k' = k /\ pc' = "crashed"
                       ELSE IF k < Len(sub_batch) THEN k' = k + 1 /\ pc' = "video"
                       ELSE k' = k /\ pc' = "subend"
    /\ UNCHANGED <<linksExists, content, worlds, batches, prompt, i, linkIdx, expanded_videos, j,
                   trVars>>

\* lines 214-216 and the step of "for j": the sub-batch is finished
EndSubBatch ==
    /\ pc = "subend"
    /\ log' = Append(log, Event("subend", <<>>, FALSE, "",
                                SubBatchDelays(j, Len(expanded_videos)), <<>>))
    /\ j' = j + BATCH_SIZE
    /\ k' = 1
    /\ pc' = IF j' < Len(expanded_videos) THEN "video" ELSE "batchend"
    /\ UNCHANGED <<linksExists, content, worlds, batches, prompt, i, linkIdx, expanded_videos,
                   files, last, world, trVars>>

\* lines 218-222 and the step of "for i, batch": the batch is finished
EndBatch ==
    /\ pc = "batchend"
    /\ log' = Append(log, Event("batchend", <<>>, FALSE, "",
                                BatchDelays(i, Len(batches)), <<>>))
    /\ IF i < Len(batches)
       THEN /\ i' = i + 1
            /\ linkIdx' = 1
            /\ expanded_videos' = <<>>
            /\ pc' = "expand"
       ELSE /\ pc' = "done"
            /\ UNCHANGED <<i, linkIdx, expanded_videos>>
    /\ UNCHANGED <<linksExists, content, worlds, batches, prompt, j, k, files, last, world, trVars>>

Next ==
    \/ ReadInputs
    \/ ExpandLink
    \/ EnterSubBatches
    \/ ProcessNextVideo
    \/ EndSubBatch
    \/ EndBatch

Spec == Init /\ [][Next]_vars

\* main on a short links.txt, against every provider behaviour
InitVideo ==
    /\ linksExists = TRUE
    /\ content \in VideoFiles
    /\ worlds = "all"
    /\ MainIdle
    /\ TranslatorIdle

SpecVideo == InitVideo /\ [][Next]_vars

PcValues == {"start", "expand", "video", "subend", "batchend", "done", "crashed"}

\* control moves: main is at another statement, or at the next link or entry
Advance ==
    /\ pc \notin {"done", "crashed"}
    /\ pc' \in PcValues
    /\ linkIdx' \in {1, linkIdx, linkIdx + 1}
    /\ k' \in {1, k, k + 1}
    /\ <<pc', linkIdx', k'>> # <<pc, linkIdx, k>>

\* the script is one thread and no statement of it waits for anything but a sleep
\* of fixed length: until main returns or an exception leaves it, control moves on
FairSpecVideo == SpecVideo /\ WF_<<pc, linkIdx, k>>(Advance)

-----------------------------------------------------------------------------
(* The reader alone: main's first step on a links.txt built of ReadTokens *)

InitRead ==
    /\ linksExists = TRUE
    /\ content \in ReadFiles
    /\ worlds = "main"
    /\ MainIdle
    /\ TranslatorIdle

SpecRead == InitRead /\ [][ReadInputs]_vars

-----------------------------------------------------------------------------
(* translate_with_chunking alone, one loop iteration per step *)

TextChars == {"a", "b"}

InitTranslate ==
    /\ linksExists = FALSE
    /\ content = <<>>
    /\ worlds = "main"
    /\ MainIdle
    /\ text \in SeqsUpTo(TextChars, MaxTextLen)
    /\ chunk_size \in 1..MaxChunkSize
    /\ ti = 0
    /\ translated_chunks = <<>>
    /\ chunkLog = <<>>
    /\ translation = <<>>
    /\ tpc = "loop"

\* lines 72-79: one iteration of "for i in range(0, len(text), chunk_size)"
TranslateChunk ==
    /\ tpc = "loop"
    /\ ti < Len(text)
    /\ \E ok \in BOOLEAN :
         /\ translated_chunks' =
                Append(translated_chunks, ChunkResult(ChunkAt(text, ti, chunk_size), ok))
         /\ chunkLog' = Append(chunkLog, [at |-> ti, ok |-> ok])
    /\ ti' = ti + chunk_size
    /\ UNCHANGED <<linksExists, content, worlds, mainVars, text, chunk_size, translation, tpc>>

\* line 80: the loop is over
TranslateReturn ==
    /\ tpc = "loop"
    /\ ti >= Len(text)
    /\ translation' = Join(translated_chunks, <<NL>>)
    /\ tpc' = "done"
    /\ UNCHANGED <<linksExists, content, worlds, mainVars, text, chunk_size, ti,
                   translated_chunks, chunkLog>>

NextTranslate == TranslateChunk \/ TranslateReturn

SpecTranslate == InitTranslate /\ [][NextTranslate]_vars

-----------------------------------------------------------------------------
(* What the history says *)

VideoEvents == SelectSeq(log, LAMBDA e : e.ev = "video")

\* a line that is nothing but five or more dashes (and blanks around them)
IsSeparatorLine(l) ==
    LET t == Strip(l)
    IN  Len(t) >= MinDashes /\ \A n \in 1..Len(t) : t[n] = "-"

\* the lines of links.txt that are neither blank nor separators, trimmed
EntryLines(c) ==
    LET lines == Split(c, <<NL>>)
        trimmed == [n \in 1..Len(lines) |-> Strip(lines[n])]
    IN  SelectSeq(trimmed, LAMBDA l : l # <<>> /\ ~IsSeparatorLine(l))

RECURSIVE GroupLines(_, _)
\* the groups of trimmed non-blank lines between the separator lines
GroupLines(lines, cur) ==
    IF lines = <<>> THEN <<cur>>
    ELSE IF IsSeparatorLine(lines[1]) THEN <<cur>> \o GroupLines(Tail(lines), <<>>)
    ELSE GroupLines(Tail(lines),
                    IF Strip(lines[1]) = <<>> THEN cur ELSE Append(cur, Strip(lines[1])))

\* the batches of a links.txt whose separators are the separator lines
BatchesBySeparatorLines(c) ==
    SelectSeq(GroupLines(Split(c, <<NL>>), <<>>), LAMBDA g : g # <<>>)

\* C1: a links.txt of N valid video links of N different videos, all of which
\* have a transcript and meet no failure, leaves N files when main is done
C1_OneFilePerVideo ==
    LET entries == EntryLines(content)
        ids == [n \in 1..Len(entries) |-> ExtractVideoId(entries[n]).val]
    IN  (/\ pc = "done"
         /\ linksExists
         /\ \A n \in 1..Len(entries) :
                IsValidReference(entries[n]) /\ ~IsPlaylistLink(entries[n])
         /\ \A n, m \in 1..Len(entries) : n # m => ids[n] # ids[m]
         /\ \A n \in 1..Len(log) : log[n].outcome \notin {"no_transcript", "error"})
        => Cardinality(files) = Len(entries)

\* one valid link whose video ID holds five dashes: read as two batches of one
\* fragment each, both rejected, and no file at the end
C1_Witness ==
    /\ pc = "done"
    /\ content = ShortPrefix \o IdDashes
    /\ IsValidReference(content)
    /\ Len(batches) = 2
    /\ Len(VideoEvents) = 2
    /\ files = {}

\* C7: read_batches_from_links_file returns the groups of trimmed non-blank lines
\* that lie between the separator lines, in file order, and no empty batch
C7_BatchesAreLineGroups ==
    pc # "start" =>
        /\ batches = BatchesBySeparatorLines(content)
        /\ \A b \in 1..Len(batches) :
             /\ batches[b] # <<>>
             /\ \A n \in 1..Len(batches[b]) : batches[b][n] # <<>>

\* a line of five dashes followed by a letter is no separator line, and the
\* reader returns the letter alone
C7_Witness ==
    /\ pc # "start"
    /\ content = <<"-", "-", "-", "-", "-", "a">>
    /\ ~IsSeparatorLine(content)
    /\ batches = << << <<"a">> >> >>

\* C5: every video a playlist expands to reaches the transcript fetcher
C5_PlaylistVideosReachFetcher ==
    \A n \in 1..Len(log) :
        (log[n].ev = "video" /\ log[n].pl) => log[n].outcome # "invalid"

\* a video ID out of a playlist is handed to process_video and rejected there
C5_Witness ==
    \E n \in 1..Len(log) :
        /\ log[n].ev = "video" /\ log[n].pl
        /\ log[n].url = IdA
        /\ MatchesIdPattern(log[n].url)
        /\ log[n].outcome = "invalid"

\* C4 as stated: every process_video call sleeps DELAY_BETWEEN_VIDEOS exactly once,
\* whatever its outcome, a rejected reference included
C4_DelayAfterEveryEntry ==
    \A n \in 1..Len(log) :
        log[n].ev = "video" => log[n].delays = <<DELAY_BETWEEN_VIDEOS>>

\* C4 as amended: a process_video call sleeps DELAY_BETWEEN_VIDEOS exactly once when
\* the reference is accepted, whether the file is saved, no transcript exists or an
\* unexpected error occurs, and not at all when the reference is rejected as
\* invalid; nothing else sleeps the short delay
C4_DelayAfterEveryAcceptedEntry ==
    \A n \in 1..Len(log) :
        IF log[n].ev = "video"
        THEN log[n].delays =
                 IF log[n].outcome = "invalid" THEN <<>> ELSE <<DELAY_BETWEEN_VIDEOS>>
        ELSE \A d \in 1..Len(log[n].delays) : log[n].delays[d] # DELAY_BETWEEN_VIDEOS

C4_Witness ==
    /\ \E n \in 1..Len(log) : log[n].ev = "video" /\ log[n].outcome = "saved"
    /\ \E n \in 1..Len(log) : log[n].ev = "video" /\ log[n].outcome = "error"
    /\ \E n \in 1..Len(log) : log[n].ev = "video" /\ log[n].outcome = "invalid"

\* whether the video of world w has a track of the language and kind
HasTrack(w, code, generated) ==
    /\ w.listing = "ok"
    /\ \E n \in w.tracks : TrackPool[n].code = code /\ TrackPool[n].generated = generated
HasManualMarathi(w) == HasTrack(w, "mr", FALSE)
HasAutoMarathi(w) == HasTrack(w, "mr", TRUE)
HasEnglish(w) ==
    \E c \in {"en", "en-US", "en-GB"}, g \in BOOLEAN : HasTrack(w, c, g)

\* C2: the fallback order is manual Marathi, generated Marathi, English: with a
\* manual Marathi track the returned text is that track's, never the generated or
\* the translated one, and translate_with_chunking runs only when the video has
\* neither a manual nor a generated Marathi track
C2_FallbackOrder ==
    (last.called /\ last.r.fetched) =>
        LET w == world
            res == last.r.res
        IN  /\ HasManualMarathi(w) =>
                /\ res.source \notin {"generated", "translated"}
                /\ res.translateCalls = 0
                /\ res.raised = "" => res.source = "manual" /\ res.text = <<"m">>
            /\ (~HasManualMarathi(w) /\ HasAutoMarathi(w)) =>
                /\ res.source \notin {"manual", "translated"}
                /\ res.raised = "" => res.source = "generated" /\ res.text = <<"g">>
            /\ res.translateCalls > 0 =>
                ~HasManualMarathi(w) /\ ~HasAutoMarathi(w) /\ HasEnglish(w)
            /\ res.source = "translated" => res.translateCalls = 1

C2_Witness ==
    /\ last.called /\ last.r.fetched
    /\ HasManualMarathi(world) /\ HasAutoMarathi(world) /\ HasEnglish(world)
    /\ last.r.res.source = "manual"
    /\ last.r.outcome = "saved"

\* C6: a video with none of the three variants, or with transcripts disabled, makes
\* the fetch fail with a no-transcript error that carries the language codes the
\* video has; process_video writes no file, the captions directory is unchanged,
\* and main goes on
C6_NoTranscriptNoFile ==
    (/\ last.called /\ last.r.fetched
     /\ \/ world.listing = "TranscriptsDisabled"
        \/ /\ world.listing = "ok"
           /\ ~HasManualMarathi(world) /\ ~HasAutoMarathi(world) /\ ~HasEnglish(world))
    => LET res == last.r.res
       IN  /\ res.raised \in NoTranscriptErrors
           /\ {res.codes[n] : n \in 1..Len(res.codes)}
                 = {TrackPool[n].code : n \in world.tracks}
           /\ Len(res.codes) = Cardinality(world.tracks)
           /\ last.r.outcome = "no_transcript"
           /\ last.r.filename = <<>>
           /\ last.r.files = last.before
           /\ files = last.before
           /\ pc \in {"video", "subend", "batchend", "expand", "done"}

C6_Witness ==
    /\ last.called /\ last.r.fetched
    /\ world.listing = "ok" /\ world.tracks = {3}
    /\ last.r.res.raised = "NoTranscriptFound"
    /\ last.r.res.codes = <<"hi">>
    /\ last.before # {}
    /\ files = last.before
    /\ pc = "done"

RECURSIVE PieceOffset(_, _)
\* where piece number n starts in the joined text: after the pieces before it and
\* one line break for each
PieceOffset(pieces, n) ==
    IF n = 1 THEN 0 ELSE PieceOffset(pieces, n - 1) + Len(pieces[n - 1]) + 1

\* C8: translate_with_chunking returns ceil(L/C) pieces joined by line breaks, in
\* input order; piece k is the translation of text[k*C:(k+1)*C] when translate
\* returns and that slice itself when it raises, and every chunk is visited
C8_ChunksInOrder ==
    tpc = "done" =>
        LET L == Len(text)
            C == chunk_size
            count == (L + C - 1) \div C
            SliceOf(n) == SubSeq(text, (n - 1) * C + 1, Min(n * C, L))
            Piece(n) == IF chunkLog[n].ok THEN Translate(SliceOf(n)) ELSE SliceOf(n)
            pieces == [n \in 1..count |-> Piece(n)]
        IN  /\ Len(chunkLog) = count
            /\ translated_chunks = pieces
            /\ \A n \in 1..count :
                 /\ SubSeq(translation, PieceOffset(pieces, n) + 1,
                           PieceOffset(pieces, n) + Len(pieces[n])) = pieces[n]
                 /\ n > 1 => translation[PieceOffset(pieces, n)] = NL
            /\ Len(translation) =
                 IF count = 0 THEN 0 ELSE PieceOffset(pieces, count) + Len(pieces[count])
            /\ translation =
                 TranslateWithChunking(text, C, [n \in 1..count |-> chunkLog[n].ok])

C8_Witness ==
    /\ tpc = "done"
    /\ Len(text) = MaxTextLen
    /\ chunk_size = 2
    /\ Len(chunkLog) = 3
    /\ ~chunkLog[1].ok /\ chunkLog[2].ok /\ ~chunkLog[3].ok
    /\ translated_chunks[2] # SubSeq(text, 3, 4)

\* the events of batch b after its expansion
RunOfBatch(b) == SelectSeq(log, LAMBDA e : e.batch = b /\ e.ev # "expand")

RECURSIVE ExpansionOf(_, _)
\* the links with every playlist link replaced by its videos (ex: the expansions of
\* the batch, in order), none when the expansion failed
ExpansionOf(links, ex) ==
    IF links = <<>> THEN <<>>
    ELSE IF IsPlaylistLink(links[1])
         THEN (IF ex[1].outcome = "ok" THEN ex[1].ids ELSE <<>>)
              \o ExpansionOf(Tail(links), Tail(ex))
         ELSE <<links[1]>> \o ExpansionOf(Tail(links), ex)

\* what batch b has to call, in order
EntriesOfBatch(b) ==
    ExpansionOf(batches[b], SelectSeq(log, LAMBDA e : e.batch = b /\ e.ev = "expand"))

Skeleton(events) ==
    [n \in 1..Len(events) |-> <<events[n].ev, events[n].url, events[n].sub>>]

\* the calls and loop ends of a batch with the entries es: sub-batches of 20, each
\* followed by its end, then the end of the batch
ExpectedRun(es) ==
    LET count == (Len(es) + 19) \div 20
        SubRun(n) ==
            [m \in 1..(Min(20 * n, Len(es)) - 20 * (n - 1)) |->
                <<"video", es[20 * (n - 1) + m], n>>] \o << <<"subend", <<>>, n>> >>
    IN  Concat([n \in 1..count |-> SubRun(n)]) \o << <<"batchend", <<>>, count + 1>> >>

\* C9: in every batch process_video is called for the links in file order, each
\* playlist link replaced in place by its videos, in consecutive sub-batches of 20
\* (only the last may be shorter); batches and sub-batches follow one another and
\* no entry is processed twice or skipped
C9_CallsFollowExpansion ==
    pc = "done" =>
        /\ \A b \in 1..Len(batches) :
             Skeleton(RunOfBatch(b)) = ExpectedRun(EntriesOfBatch(b))
        /\ \A n \in 1..Len(log) : log[n].batch \in 1..Len(batches)
        /\ \A n \in 1..(Len(log) - 1) :
             /\ log[n].batch <= log[n + 1].batch
             /\ (log[n + 1].ev = "expand" /\ log[n].batch = log[n + 1].batch)
                    => log[n].ev = "expand"

C9_Witness ==
    /\ pc = "done"
    /\ \E n \in 1..Len(log) :
         log[n].ev = "video" /\ ~log[n].pl /\ log[n].sub = 2 /\ log[n].outcome = "saved"
    /\ \E n \in 1..Len(log) : log[n].ev = "video" /\ log[n].pl /\ log[n].sub = 1
    /\ \E n \in 1..Len(log) : log[n].ev = "expand" /\ log[n].outcome = "failed"

\* C10: DELAY_BETWEEN_BATCHES is slept once after every sub-batch that another
\* sub-batch of the same batch follows, once after every batch that another batch
\* follows (a batch without entries included), and never after the last sub-batch
\* of a batch or the last batch
C10_LongDelays ==
    pc = "done" =>
        /\ \A n \in 1..Len(log) :
             log[n].delays =
                 IF \/ log[n].ev = "subend" /\ n < Len(log) /\ log[n + 1].ev = "video"
                    \/ log[n].ev = "batchend" /\ n < Len(log)
                 THEN <<DELAY_BETWEEN_BATCHES>>
                 ELSE IF log[n].ev = "video" /\ log[n].outcome # "invalid"
                 THEN <<DELAY_BETWEEN_VIDEOS>>
                 ELSE <<>>
        /\ \A b \in 1..Len(batches) :
             Cardinality({n \in 1..Len(log) : log[n].ev = "batchend" /\ log[n].batch = b}) = 1
        /\ batches # <<>> => log[Len(log)].ev = "batchend"

C10_Witness ==
    /\ pc = "done"
    /\ Len(batches) = 2
    /\ \A n \in 1..Len(log) : log[n].batch = 1 => log[n].ev \in {"expand", "batchend"}
    /\ \E n \in 1..Len(log) :
         log[n].ev = "subend" /\ log[n].batch = 2 /\ log[n].delays = <<DELAY_BETWEEN_BATCHES>>
    /\ \E n \in 1..Len(log) :
         log[n].ev = "batchend" /\ log[n].batch = 1
            /\ log[n].delays = <<DELAY_BETWEEN_BATCHES>>

\* the calls of process_video in batch b, in order
CallsOfBatch(b) ==
    LET calls == SelectSeq(log, LAMBDA e : e.batch = b /\ e.ev = "video")
    IN  [n \in 1..Len(calls) |-> calls[n].url]

\* C3: whatever the providers and the file system do, main reaches its end, and by
\* then process_video has been called once for every entry of every expanded batch
\* and every batch has been brought to its end
C3_NoFailureAbortsRun ==
    <>(/\ pc = "done"
       /\ \A b \in 1..Len(batches) :
            /\ CallsOfBatch(b) = EntriesOfBatch(b)
            /\ \E n \in 1..Len(log) : log[n].ev = "batchend" /\ log[n].batch = b)

C3_Witness ==
    /\ pc = "done"
    /\ \E n \in 1..Len(log) : log[n].ev = "expand" /\ log[n].outcome = "failed"
    /\ last.called /\ last.r.outcome = "error" /\ ~world.writeOk /\ ~world.chunkOk
    /\ ~world.titleOk

====
